---------------------------- MODULE Spec2Model ----------------------------
(***************************************************************************)
(* Block-granularity LRU memory simulator                                  *)
(* (src/log_execution_plan/tensor_memory_simulator.py, MemorySimulator).   *)
(*                                                                         *)
(* The constructor arguments (ram_size, block_size, tensor_data,           *)
(* execution_plan) are drawn in Init; the fields of the simulator and the  *)
(* position of simulate() / _access_tensor() are the remaining variables.  *)
(* One action is one step of simulate(): starting an access, one block hit,*)
(* one eviction, one block load, the end of an access, the end of a node.  *)
(***************************************************************************)
EXTENDS Integers, Sequences, FiniteSets, TLC

VARIABLES
    ram_size,             \* constructor argument
    block_size,           \* constructor argument
    tensor_data,          \* constructor argument: tensor id -> [address, size]
    execution_plan,       \* constructor argument: sequence of nodes
    total_blocks,         \* self.total_blocks
    stats,                \* self.stats
    ram_blocks,           \* self.ram_blocks: OrderedDict as a sequence of Blocks, LRU first
    tensor_to_blocks,     \* self.tensor_to_blocks (defaultdict(set))
    current_ram_usage,    \* self.current_ram_usage
    memory_events,        \* self.memory_events
    pc,                   \* position in simulate(): "node", "access", "load", "done"
    step,                 \* simulate(): enumerate index of the node being processed
    idx,                  \* simulate(): position in the node's inputs-then-outputs
    tensor_id,            \* _access_tensor(): argument
    is_write,             \* _access_tensor(): argument
    blocks,               \* _access_tensor(): blocks of the tensor
    bi,                   \* _access_tensor(): position in blocks
    tensor_fully_loaded,  \* _access_tensor(): local flag
    entry                 \* history: what the latest access found when it began, the
                          \* accesses begun so far, the most bytes resident between accesses,
                          \* the statistics that earlier calls of simulate() returned

vars == <<ram_size, block_size, tensor_data, execution_plan, total_blocks, stats,
          ram_blocks, tensor_to_blocks, current_ram_usage, memory_events,
          pc, step, idx, tensor_id, is_write, blocks, bi, tensor_fully_loaded, entry>>

inputs_vars == <<ram_size, block_size, tensor_data, execution_plan, total_blocks>>

access_vars == <<tensor_id, is_write, blocks>>

-----------------------------------------------------------------------------
(* Bounds of the model and the program's constants.                        *)

\* default block_size of MemorySimulator.__init__
DefaultBlockSize == 4096

\* longest execution plan of the layout family, in nodes
MaxPlanLen == 3

\* longest execution plan of the three-block family, in nodes
MaxScenarioLen == 4

\* sizes and addresses are multiples of this granule (half a default block)
Granule == DefaultBlockSize \div 2

BlockSizes == {DefaultBlockSize}

\* node_idx of the i-th node of a plan (1-based i)
NodeIdxOf(i) == 10 * i

\* the plans of at most n nodes whose nodes are drawn from shapes
PlansOver(shapes, n) ==
    UNION { { [i \in 1..m |-> [node_idx |-> NodeIdxOf(i),
                               inputs |-> f[i].inputs,
                               outputs |-> f[i].outputs]] : f \in [1..m -> shapes] }
            : m \in 0..n }

\* nodes with a single access, a read or a write of one of ids
SingleAccessNodes(ids) ==
    { [inputs |-> <<t>>, outputs |-> << >>] : t \in ids }
    \cup { [inputs |-> << >>, outputs |-> <<t>>] : t \in ids }

(* The layout family: two tensors placed freely, a third id that is never  *)
(* in the table, capacities 0, 1 and 2.                                    *)

TensorIds == {1, 2}

UnknownId == 1 + Cardinality(TensorIds)

\* capacities 0, 1, 2 (the last by rounding down)
RamSizes == {0, DefaultBlockSize, 5 * Granule}

\* (address, size) of a tensor: the aligned blocks 0 and 1, the second half
\* of block 0, a range over blocks 0-1 and a range over blocks 1-3
Placements ==
    { [address |-> 0, size |-> 2 * Granule],
      [address |-> 2 * Granule, size |-> 2 * Granule],
      [address |-> Granule, size |-> Granule],
      [address |-> Granule, size |-> 2 * Granule],
      [address |-> 3 * Granule, size |-> 4 * Granule] }

TensorTables == [TensorIds -> Placements]

Plans == PlansOver(SingleAccessNodes(TensorIds \cup {UnknownId}), MaxPlanLen)

(* The three-block family: T1, T2, T3 each fill one block (blocks 0, 1, 2), *)
(* capacities 1, 2 and 3.                                                   *)

ScenarioTable ==
    [t \in {1, 2, 3} |-> [address |-> (t - 1) * DefaultBlockSize,
                          size |-> DefaultBlockSize]]

ScenarioRamSizes == {DefaultBlockSize, 2 * DefaultBlockSize, 3 * DefaultBlockSize}

ScenarioPlans == PlansOver(SingleAccessNodes(DOMAIN ScenarioTable), MaxScenarioLen)

(* The node family: nodes of up to two accesses (two inputs, two outputs, or *)
(* one of each), three tensor tables (two blocks apart; one tensor over two *)
(* blocks, id 2 absent; two tensors sharing block 0), capacities 1 and 2.   *)

\* longest execution plan of the node family, in nodes
MaxNodesPlanLen == 2

\* most calls of simulate() on one simulator
MaxCalls == 2

PairNodes(ids) ==
    { [inputs |-> << >>, outputs |-> << >>] }
    \cup SingleAccessNodes(ids)
    \cup { [inputs |-> <<a, b>>, outputs |-> << >>] : a \in ids, b \in ids }
    \cup { [inputs |-> <<a>>, outputs |-> <<b>>] : a \in ids, b \in ids }
    \cup { [inputs |-> << >>, outputs |-> <<a, b>>] : a \in ids, b \in ids }

NodeTables ==
    { [t \in {1, 2} |-> [address |-> (t - 1) * DefaultBlockSize, size |-> DefaultBlockSize]],
      [t \in {1} |-> [address |-> Granule, size |-> 2 * Granule]],
      [t \in {1, 2} |-> [address |-> Granule, size |-> t * Granule]] }

NodeRamSizes == {DefaultBlockSize, 2 * DefaultBlockSize}

NodePlans == PlansOver(PairNodes({1, 2}), MaxNodesPlanLen)

-----------------------------------------------------------------------------
(* Helpers on sets and sequences.                                          *)

Min(S) == CHOOSE x \in S : \A y \in S : x <= y

\* variant: the arguments of max() are the same one
Max2_of_first(a, b) == a

Max2(a, b) == IF a >= b THEN a ELSE b

RECURSIVE SumOver(_, _)
SumOver(S, f) ==
    IF S = {} THEN 0
    ELSE LET x == CHOOSE y \in S : TRUE IN f[x] + SumOver(S \ {x}, f)

\* the keys of the OrderedDict
KeySet(rb) == { rb[i].start_address : i \in 1..Len(rb) }

IndexOf(rb, addr) == CHOOSE i \in 1..Len(rb) : rb[i].start_address = addr

RemoveAt(s, i) == SubSeq(s, 1, i - 1) \o SubSeq(s, i + 1, Len(s))

-----------------------------------------------------------------------------
(* Block Address Index: pure functions of tensor_data and block_size.      *)

\* _get_block_boundaries: the block-aligned start of the block holding address
_get_block_boundaries(address) ==
    LET block_start == (address \div block_size) * block_size
    IN  [block_start |-> block_start, block_end |-> block_start + block_size]

\* variant: only the tensors whose first byte lies in the block are found
_find_tensors_in_block_by_start(block_start, block_end) ==
    { tid \in DOMAIN tensor_data :
        /\ tensor_data[tid].address >= block_start
        /\ tensor_data[tid].address < block_end }

\* _find_tensors_in_block: tensors whose byte range overlaps [block_start, block_end)
_find_tensors_in_block(block_start, block_end) ==
    { tid \in DOMAIN tensor_data :
        LET tensor_start == tensor_data[tid].address
            tensor_end == tensor_start + tensor_data[tid].size
        IN  ~(tensor_end <= block_start \/ tensor_start >= block_end) }

\* range(start, stop, stride) of Python for a positive stride, as a sequence
Range(start, stop, stride) ==
    LET n == IF stop > start THEN (stop - start + stride - 1) \div stride ELSE 0
    IN  [i \in 1..n |-> start + (i - 1) * stride]

\* Block(start_address, size, tensor_ids, last_access, dirty=False)
Block(start_address, size, tensor_ids, last_access) ==
    [start_address |-> start_address, size |-> size, tensor_ids |-> tensor_ids,
     last_access |-> last_access, dirty |-> FALSE]

\* variant: the last block is taken from the byte after the tensor's end
_calculate_blocks_for_tensor_past_end(tid) ==
    LET tensor_start == tensor_data[tid].address
        tensor_end == tensor_start + tensor_data[tid].size
        start_block_addr == _get_block_boundaries(tensor_start).block_start
        end_block_addr == _get_block_boundaries(tensor_end).block_start
        starts == Range(start_block_addr, end_block_addr + 1, block_size)
    IN  [i \in 1..Len(starts) |->
            Block(starts[i], block_size,
                  _find_tensors_in_block(starts[i], starts[i] + block_size), 0)]

\* _calculate_blocks_for_tensor: the blocks a tensor spans, ascending
_calculate_blocks_for_tensor(tid) ==
    LET tensor_start == tensor_data[tid].address
        tensor_end == tensor_start + tensor_data[tid].size
        start_block_addr == _get_block_boundaries(tensor_start).block_start
        end_block_addr == _get_block_boundaries(tensor_end - 1).block_start
        starts == Range(start_block_addr, end_block_addr + 1, block_size)
    IN  [i \in 1..Len(starts) |->
            Block(starts[i], block_size,
                  _find_tensors_in_block(starts[i], starts[i] + block_size), 0)]

\* variant: a block that several tensors overlap is counted once per tensor
memory_saved_sharing_per_tensor(td, bs) ==
    LET total_tensor_size == SumOver(DOMAIN td, [t \in DOMAIN td |-> td[t].size])
        BlocksOf(t) ==
            LET start_block == (td[t].address \div bs) * bs
                end_block == ((td[t].address + td[t].size - 1) \div bs) * bs
                r == Range(start_block, end_block + bs, bs)
            IN  { r[i] : i \in 1..Len(r) }
    IN  total_tensor_size
        - SumOver(DOMAIN td, [t \in DOMAIN td |-> Cardinality(BlocksOf(t))]) * bs

\* _build_address_mapping: stats['memory_saved_sharing']
memory_saved_sharing(td, bs) ==
    LET total_tensor_size == SumOver(DOMAIN td, [t \in DOMAIN td |-> td[t].size])
        BlocksOf(t) ==
            LET start_block == (td[t].address \div bs) * bs
                end_block == ((td[t].address + td[t].size - 1) \div bs) * bs
                r == Range(start_block, end_block + bs, bs)
            IN  { r[i] : i \in 1..Len(r) }
        unique_blocks == UNION { BlocksOf(t) : t \in DOMAIN td }
    IN  total_tensor_size - Cardinality(unique_blocks) * bs

\* MemoryEvent(...)
MemoryEvent(st, node_idx, event_type, tid, block_address, bsize, shared_tensors, w) ==
    [step |-> st, node_idx |-> node_idx, event_type |-> event_type, tensor_id |-> tid,
     block_address |-> block_address, block_size |-> bsize,
     shared_tensors |-> shared_tensors, is_write |-> w]

-----------------------------------------------------------------------------
(* The state after MemorySimulator.__init__.                               *)

\* the parameters of MemorySimulator.__init__: any other keyword is a TypeError
ConfigOptions == {"ram_size", "tensor_data", "execution_plan", "block_size"}

\* Python's `a / b`, the quotient kept as a fraction; den = 0 stands for the
\* ZeroDivisionError that a zero divisor raises
TrueDiv(a, b) == [num |-> a, den |-> b]

\* the literal 0 of the `else` branches, as a fraction
Zero == TrueDiv(0, 1)

\* variant: the shared ratio is divided by the block accesses as they are
get_hit_ratios_unguarded(s) ==
    LET block_accesses == s.block_hits + s.block_misses
        tensor_accesses == s.tensor_hits + s.tensor_misses
    IN  [block_hit_ratio |->
             IF block_accesses > 0 THEN TrueDiv(s.block_hits, block_accesses) ELSE Zero,
         tensor_hit_ratio |->
             IF tensor_accesses > 0 THEN TrueDiv(s.tensor_hits, tensor_accesses) ELSE Zero,
         shared_access_ratio |-> TrueDiv(s.shared_block_accesses, block_accesses)]

\* get_hit_ratios(), on the statistics s
get_hit_ratios(s) ==
    LET block_accesses == s.block_hits + s.block_misses
        tensor_accesses == s.tensor_hits + s.tensor_misses
        total_accesses == Max2(1, s.block_hits + s.block_misses)
    IN  [block_hit_ratio |->
             IF block_accesses > 0 THEN TrueDiv(s.block_hits, block_accesses) ELSE Zero,
         tensor_hit_ratio |->
             IF tensor_accesses > 0 THEN TrueDiv(s.tensor_hits, tensor_accesses) ELSE Zero,
         shared_access_ratio |-> TrueDiv(s.shared_block_accesses, total_accesses)]

InitStats(td, bs) ==
    [block_hits |-> 0, block_misses |-> 0, block_evictions |-> 0, total_io |-> 0,
     peak_memory |-> 0, tensor_hits |-> 0, tensor_misses |-> 0,
     shared_block_accesses |-> 0,
     memory_saved_sharing |-> memory_saved_sharing(td, bs)]

\* the statistics, the resident addresses and the length of the event log as
\* the access that begins finds them; the most bytes resident between accesses
\* so far; the accesses begun before this one
Snapshot ==
    [stats |-> stats, resident |-> KeySet(ram_blocks), events |-> Len(memory_events),
     seen |-> IF entry.seen >= current_ram_usage THEN entry.seen ELSE current_ram_usage,
     order |-> entry.order, returned |-> entry.returned]

Construct(rs, bs, td, plan) ==
    /\ ram_size = rs
    /\ block_size = bs
    /\ tensor_data = td
    /\ execution_plan = plan
    /\ total_blocks = rs \div bs
    /\ stats = InitStats(td, bs)
    /\ ram_blocks = << >>
    /\ tensor_to_blocks = [t \in DOMAIN td |-> {}]
    /\ current_ram_usage = 0
    /\ memory_events = << >>
    /\ pc = "node"
    /\ step = 0
    /\ idx = 1
    /\ tensor_id = 0
    /\ is_write = FALSE
    /\ blocks = << >>
    /\ bi = 1
    /\ tensor_fully_loaded = TRUE
    /\ entry = [stats |-> InitStats(td, bs), resident |-> {}, events |-> 0,
                seen |-> 0, order |-> << >>, returned |-> << >>]

InitLayouts ==
    \E rs \in RamSizes, bs \in BlockSizes, td \in TensorTables, plan \in Plans :
        Construct(rs, bs, td, plan)

InitScenario ==
    \E rs \in ScenarioRamSizes, plan \in ScenarioPlans :
        Construct(rs, DefaultBlockSize, ScenarioTable, plan)

Init == InitLayouts \/ InitScenario

InitNodes ==
    \E rs \in NodeRamSizes, td \in NodeTables, plan \in NodePlans :
        Construct(rs, DefaultBlockSize, td, plan)

-----------------------------------------------------------------------------
(* simulate(): the node being processed and the accesses it makes.         *)

\* the node of the current enumerate step (step is 0-based)
node == execution_plan[step + 1]

\* variant: the outputs are written before the inputs are read
Accesses_outputs_first(n) ==
    [i \in 1..(Len(n.outputs) + Len(n.inputs)) |->
        IF i <= Len(n.outputs)
        THEN [tensor_id |-> n.outputs[i], is_write |-> TRUE]
        ELSE [tensor_id |-> n.inputs[i - Len(n.outputs)], is_write |-> FALSE]]

\* a node's accesses: every input as a read, then every output as a write
Accesses(n) ==
    [i \in 1..(Len(n.inputs) + Len(n.outputs)) |->
        IF i <= Len(n.inputs)
        THEN [tensor_id |-> n.inputs[i], is_write |-> FALSE]
        ELSE [tensor_id |-> n.outputs[i - Len(n.inputs)], is_write |-> TRUE]]

InNode == pc = "node" /\ step < Len(execution_plan)

\* `if tensor_id in self.tensor_data` of simulate() and of _access_tensor()
Known(tid) == tid \in DOMAIN tensor_data

\* the lines simulate() prints for an input (w false) or output (w true) that
\* names tid, before it calls _access_tensor: one line for a tensor of the
\* table, inside the `if tensor_id in self.tensor_data`, and none otherwise
PrintedFor(tid, w) ==
    IF Known(tid)
    THEN <<[level |-> "info",
            text |-> IF w THEN "Writing tensor" ELSE "Reading tensor",
            tensor_id |-> tid]>>
    ELSE << >>

\* variant: the cache is probed with the tensor's own address
Resident_by_tensor_address(addr) ==
    IF pc = "access" THEN tensor_data[tensor_id].address \in KeySet(ram_blocks)
    ELSE addr \in KeySet(ram_blocks)

\* `block.start_address in self.ram_blocks`
Resident(addr) == addr \in KeySet(ram_blocks)

\* variant: one slot of the cache is kept free
CacheFull_keeps_one_free == Len(ram_blocks) + 1 >= total_blocks

\* `len(self.ram_blocks) >= self.total_blocks` of _load_block
CacheFull == Len(ram_blocks) >= total_blocks

\* variant: the last entry of the OrderedDict (most recently used) is evicted
lru_index_last == Len(ram_blocks)

\* `next(iter(self.ram_blocks.items()))`: the first entry of the OrderedDict
lru_index == 1

\* variant: every eviction is charged a write-back
EvictionIO_always(lru_block) == block_size

\* variant: evicting a clean block takes back the I/O of its load
EvictionIO_refunds_clean(lru_block) == IF lru_block.dirty THEN block_size ELSE 0 - block_size

\* write-back cost of _evict_block
EvictionIO(lru_block) == IF lru_block.dirty THEN block_size ELSE 0

\* variant: a hit updates the entry and leaves it in place
move_to_end_in_place(rb, i, b) == [rb EXCEPT ![i] = b]

\* OrderedDict.move_to_end(key) after the hit's updates of the entry
move_to_end(rb, i, b) == RemoveAt(rb, i) \o <<b>>

\* variant: the dirty flag is assigned from is_write on every hit
HitEntry_dirty_is_write(existing_block, st, w) ==
    [existing_block EXCEPT !.last_access = st, !.dirty = w]

\* the entry of a hit block after `last_access = step` and the dirty update
HitEntry(existing_block, st, w) ==
    [existing_block EXCEPT !.last_access = st,
                           !.dirty = IF w THEN TRUE ELSE existing_block.dirty]

\* variant: the loaded block keeps the last_access it was built with
LoadedEntry_as_built(block, st) == block

\* the entry _load_block stores: `block.last_access = step`
LoadedEntry(block, st) == [block EXCEPT !.last_access = st]

\* variant: the evicted block is removed from the bookkeeping of its primary
\* tensor only
_evict_block_primary_only(st, node_idx) ==
    IF ram_blocks = << >>
    THEN UNCHANGED <<ram_blocks, tensor_to_blocks, current_ram_usage, stats, memory_events>>
    ELSE LET lru_block == ram_blocks[lru_index]
             lru_addr == lru_block.start_address
             primary_tensor == Min(lru_block.tensor_ids)
         IN  /\ stats' = [stats EXCEPT
                            !.total_io = @ + EvictionIO(lru_block),
                            !.block_evictions = @ + 1]
             /\ tensor_to_blocks' =
                    [t \in DOMAIN tensor_to_blocks |->
                        IF t = primary_tensor
                        THEN tensor_to_blocks[t] \ {lru_addr}
                        ELSE tensor_to_blocks[t]]
             /\ ram_blocks' = RemoveAt(ram_blocks, lru_index)
             /\ current_ram_usage' = current_ram_usage - block_size
             /\ memory_events' = Append(memory_events,
                    MemoryEvent(st, node_idx, "evict_block", primary_tensor, lru_addr,
                                block_size, lru_block.tensor_ids \ {primary_tensor}, FALSE))

\* variant: an eviction attempt on an empty cache is counted as an eviction
_evict_block_counts_attempt(st, node_idx) ==
    IF ram_blocks = << >>
    THEN /\ stats' = [stats EXCEPT !.block_evictions = @ + 1]
         /\ UNCHANGED <<ram_blocks, tensor_to_blocks, current_ram_usage, memory_events>>
    ELSE LET lru_block == ram_blocks[lru_index]
             lru_addr == lru_block.start_address
             primary_tensor == Min(lru_block.tensor_ids)
         IN  /\ stats' = [stats EXCEPT
                            !.total_io = @ + EvictionIO(lru_block),
                            !.block_evictions = @ + 1]
             /\ tensor_to_blocks' =
                    [t \in DOMAIN tensor_to_blocks |->
                        IF t \in lru_block.tensor_ids
                        THEN tensor_to_blocks[t] \ {lru_addr}
                        ELSE tensor_to_blocks[t]]
             /\ ram_blocks' = RemoveAt(ram_blocks, lru_index)
             /\ current_ram_usage' = current_ram_usage - block_size
             /\ memory_events' = Append(memory_events,
                    MemoryEvent(st, node_idx, "evict_block", primary_tensor, lru_addr,
                                block_size, lru_block.tensor_ids \ {primary_tensor}, FALSE))

\* _evict_block(step, node_idx)
_evict_block(st, node_idx) ==
    IF ram_blocks = << >>
    THEN UNCHANGED <<ram_blocks, tensor_to_blocks, current_ram_usage, stats, memory_events>>
    ELSE LET lru_block == ram_blocks[lru_index]
             lru_addr == lru_block.start_address
             primary_tensor == Min(lru_block.tensor_ids)
         IN  /\ stats' = [stats EXCEPT
                            !.total_io = @ + EvictionIO(lru_block),
                            !.block_evictions = @ + 1]
             /\ tensor_to_blocks' =
                    [t \in DOMAIN tensor_to_blocks |->
                        IF t \in lru_block.tensor_ids
                        THEN tensor_to_blocks[t] \ {lru_addr}
                        ELSE tensor_to_blocks[t]]
             /\ ram_blocks' = RemoveAt(ram_blocks, lru_index)
             /\ current_ram_usage' = current_ram_usage - block_size
             /\ memory_events' = Append(memory_events,
                    MemoryEvent(st, node_idx, "evict_block", primary_tensor, lru_addr,
                                block_size, lru_block.tensor_ids \ {primary_tensor}, FALSE))

\* variant: the load is charged once for every tensor the block holds
_load_block_per_tensor(block, st, node_idx) ==
    LET primary_tensor == Min(block.tensor_ids)
        charged == block.size * Cardinality(block.tensor_ids)
    IN  /\ ram_blocks' = Append(ram_blocks, LoadedEntry(block, st))
        /\ tensor_to_blocks' =
               [t \in DOMAIN tensor_to_blocks |->
                   IF t \in block.tensor_ids
                   THEN tensor_to_blocks[t] \cup {block.start_address}
                   ELSE tensor_to_blocks[t]]
        /\ current_ram_usage' = current_ram_usage + charged
        /\ stats' = [stats EXCEPT !.total_io = @ + charged,
                                  !.block_misses = @ + 1]
        /\ memory_events' = Append(memory_events,
               MemoryEvent(st, node_idx, "load_block", primary_tensor,
                           block.start_address, block.size,
                           block.tensor_ids \ {primary_tensor}, FALSE))

\* variant: the load event names the accessed tensor as primary
_load_block_names_accessed(block, st, node_idx) ==
    LET primary_tensor == tensor_id
    IN  /\ ram_blocks' = Append(ram_blocks, LoadedEntry(block, st))
        /\ tensor_to_blocks' =
               [t \in DOMAIN tensor_to_blocks |->
                   IF t \in block.tensor_ids
                   THEN tensor_to_blocks[t] \cup {block.start_address}
                   ELSE tensor_to_blocks[t]]
        /\ current_ram_usage' = current_ram_usage + block.size
        /\ stats' = [stats EXCEPT !.total_io = @ + block.size,
                                  !.block_misses = @ + 1]
        /\ memory_events' = Append(memory_events,
               MemoryEvent(st, node_idx, "load_block", primary_tensor,
                           block.start_address, block.size,
                           block.tensor_ids \ {primary_tensor}, FALSE))

\* variant: the load event is inserted at the head of the log
_load_block_logs_first(block, st, node_idx) ==
    LET primary_tensor == Min(block.tensor_ids)
    IN  /\ ram_blocks' = Append(ram_blocks, LoadedEntry(block, st))
        /\ tensor_to_blocks' =
               [t \in DOMAIN tensor_to_blocks |->
                   IF t \in block.tensor_ids
                   THEN tensor_to_blocks[t] \cup {block.start_address}
                   ELSE tensor_to_blocks[t]]
        /\ current_ram_usage' = current_ram_usage + block.size
        /\ stats' = [stats EXCEPT !.total_io = @ + block.size,
                                  !.block_misses = @ + 1]
        /\ memory_events' =
               <<MemoryEvent(st, node_idx, "load_block", primary_tensor,
                             block.start_address, block.size,
                             block.tensor_ids \ {primary_tensor}, FALSE)>>
               \o memory_events

\* _load_block(block, step, node_idx), after its capacity check
_load_block(block, st, node_idx) ==
    LET primary_tensor == Min(block.tensor_ids)
    IN  /\ ram_blocks' = Append(ram_blocks, LoadedEntry(block, st))
        /\ tensor_to_blocks' =
               [t \in DOMAIN tensor_to_blocks |->
                   IF t \in block.tensor_ids
                   THEN tensor_to_blocks[t] \cup {block.start_address}
                   ELSE tensor_to_blocks[t]]
        /\ current_ram_usage' = current_ram_usage + block.size
        /\ stats' = [stats EXCEPT !.total_io = @ + block.size,
                                  !.block_misses = @ + 1]
        /\ memory_events' = Append(memory_events,
               MemoryEvent(st, node_idx, "load_block", primary_tensor,
                           block.start_address, block.size,
                           block.tensor_ids \ {primary_tensor}, FALSE))

-----------------------------------------------------------------------------
(* Actions.                                                                *)

\* simulate(): the next access of the node names a known tensor;
\* _access_tensor() computes its blocks
BeginAccess ==
    /\ InNode
    /\ idx <= Len(Accesses(node))
    /\ Known(Accesses(node)[idx].tensor_id)
    /\ tensor_id' = Accesses(node)[idx].tensor_id
    /\ is_write' = Accesses(node)[idx].is_write
    /\ blocks' = _calculate_blocks_for_tensor(Accesses(node)[idx].tensor_id)
    /\ bi' = 1
    /\ tensor_fully_loaded' = TRUE
    /\ entry' = [Snapshot EXCEPT !.order = Append(@, [step |-> step] @@ Accesses(node)[idx])]
    /\ pc' = "access"
    /\ UNCHANGED <<inputs_vars, stats, ram_blocks, tensor_to_blocks,
                   current_ram_usage, memory_events, step, idx>>

\* variant: a tensor absent from the table is counted as a tensor miss
SkipUnknown_counts_miss ==
    /\ InNode
    /\ idx <= Len(Accesses(node))
    /\ ~Known(Accesses(node)[idx].tensor_id)
    /\ idx' = idx + 1
    /\ stats' = [stats EXCEPT !.tensor_misses = @ + 1]
    /\ UNCHANGED <<inputs_vars, ram_blocks, tensor_to_blocks, current_ram_usage,
                   memory_events, pc, step, access_vars, bi, tensor_fully_loaded, entry>>

\* simulate(): the next access names a tensor absent from tensor_data
SkipUnknown ==
    /\ InNode
    /\ idx <= Len(Accesses(node))
    /\ ~Known(Accesses(node)[idx].tensor_id)
    /\ idx' = idx + 1
    /\ UNCHANGED <<inputs_vars, stats, ram_blocks, tensor_to_blocks, current_ram_usage,
                   memory_events, pc, step, access_vars, bi, tensor_fully_loaded, entry>>

\* _access_tensor(): the block is resident
AccessHit ==
    /\ pc = "access"
    /\ bi <= Len(blocks)
    /\ Resident(blocks[bi].start_address)
    /\ LET block == blocks[bi]
           i == IndexOf(ram_blocks, block.start_address)
           existing_block == HitEntry(ram_blocks[i], step, is_write)
       IN  /\ ram_blocks' = move_to_end(ram_blocks, i, existing_block)
           /\ stats' = [stats EXCEPT !.block_hits = @ + 1]
           /\ memory_events' = Append(memory_events,
                  MemoryEvent(step, node.node_idx, "access_block", tensor_id,
                              block.start_address, block.size,
                              existing_block.tensor_ids \ {tensor_id}, is_write))
    /\ bi' = bi + 1
    /\ UNCHANGED <<inputs_vars, tensor_to_blocks, current_ram_usage, pc, step, idx,
                   access_vars, tensor_fully_loaded, entry>>

\* _load_block(): the cache is at capacity, _evict_block() runs first
EvictBlock ==
    /\ pc = "access"
    /\ bi <= Len(blocks)
    /\ ~Resident(blocks[bi].start_address)
    /\ CacheFull
    /\ _evict_block(step, node.node_idx)
    /\ pc' = "load"
    /\ UNCHANGED <<inputs_vars, step, idx, access_vars, bi, tensor_fully_loaded, entry>>

\* _load_block(): the block is stored; back in _access_tensor() the tensor
\* is no longer fully loaded
LoadBlock ==
    /\ \/ pc = "load"
       \/ /\ pc = "access"
          /\ bi <= Len(blocks)
          /\ ~Resident(blocks[bi].start_address)
          /\ ~CacheFull
    /\ _load_block(blocks[bi], step, node.node_idx)
    /\ tensor_fully_loaded' = FALSE
    /\ bi' = bi + 1
    /\ pc' = "access"
    /\ UNCHANGED <<inputs_vars, step, idx, access_vars, entry>>

\* variant: the tensor-level test is inverted
FinishAccess_inverted ==
    /\ pc = "access"
    /\ bi > Len(blocks)
    /\ stats' = IF tensor_fully_loaded
                THEN [stats EXCEPT !.tensor_misses = @ + 1]
                ELSE [stats EXCEPT !.tensor_hits = @ + 1]
    /\ idx' = idx + 1
    /\ pc' = "node"
    /\ UNCHANGED <<inputs_vars, ram_blocks, tensor_to_blocks, current_ram_usage,
                   memory_events, step, access_vars, bi, tensor_fully_loaded, entry>>

\* _access_tensor(): tensor-level statistics, then back in simulate()
FinishAccess ==
    /\ pc = "access"
    /\ bi > Len(blocks)
    /\ stats' = IF tensor_fully_loaded
                THEN [stats EXCEPT !.tensor_hits = @ + 1]
                ELSE [stats EXCEPT !.tensor_misses = @ + 1]
    /\ idx' = idx + 1
    /\ pc' = "node"
    /\ UNCHANGED <<inputs_vars, ram_blocks, tensor_to_blocks, current_ram_usage,
                   memory_events, step, access_vars, bi, tensor_fully_loaded, entry>>

\* simulate(): the node's inputs and outputs are done; peak memory, next node
UpdatePeak ==
    /\ InNode
    /\ idx > Len(Accesses(node))
    /\ stats' = [stats EXCEPT !.peak_memory = Max2(@, current_ram_usage)]
    /\ step' = step + 1
    /\ idx' = 1
    /\ UNCHANGED <<inputs_vars, ram_blocks, tensor_to_blocks, current_ram_usage,
                   memory_events, pc, access_vars, bi, tensor_fully_loaded, entry>>

\* variant: the dirty blocks still resident are written back before returning
Return_flushes ==
    /\ pc = "node"
    /\ step = Len(execution_plan)
    /\ pc' = "done"
    /\ stats' = [stats EXCEPT !.total_io =
                    @ + block_size * Cardinality({ i \in 1..Len(ram_blocks) : ram_blocks[i].dirty })]
    /\ UNCHANGED <<inputs_vars, ram_blocks, tensor_to_blocks, current_ram_usage,
                   memory_events, step, idx, access_vars, bi, tensor_fully_loaded, entry>>

\* simulate(): the plan is exhausted, `return self.stats`
Return ==
    /\ pc = "node"
    /\ step = Len(execution_plan)
    /\ pc' = "done"
    /\ UNCHANGED <<inputs_vars, stats, ram_blocks, tensor_to_blocks, current_ram_usage,
                   memory_events, step, idx, access_vars, bi, tensor_fully_loaded, entry>>

Next ==
    \/ BeginAccess
    \/ SkipUnknown
    \/ AccessHit
    \/ EvictBlock
    \/ LoadBlock
    \/ FinishAccess
    \/ UpdatePeak
    \/ Return

Spec == Init /\ [][Next]_vars

\* the same simulator on the plans of the node family
SpecNodes == InitNodes /\ [][Next]_vars

\* variant: simulate() starts from the state __init__ builds
SimulateAgain_resets ==
    /\ pc = "done"
    /\ Len(entry.returned) + 1 < MaxCalls
    /\ pc' = "node"
    /\ step' = 0
    /\ idx' = 1
    /\ entry' = [entry EXCEPT !.returned = Append(@, stats)]
    /\ stats' = InitStats(tensor_data, block_size)
    /\ ram_blocks' = << >>
    /\ tensor_to_blocks' = [t \in DOMAIN tensor_data |-> {}]
    /\ current_ram_usage' = 0
    /\ memory_events' = << >>
    /\ UNCHANGED <<inputs_vars, access_vars, bi, tensor_fully_loaded>>

\* the caller calls simulate() again on the same simulator: the loop starts
\* over at the first node, nothing else is touched
SimulateAgain ==
    /\ pc = "done"
    /\ Len(entry.returned) + 1 < MaxCalls
    /\ pc' = "node"
    /\ step' = 0
    /\ idx' = 1
    /\ entry' = [entry EXCEPT !.returned = Append(@, stats)]
    /\ UNCHANGED <<inputs_vars, stats, ram_blocks, tensor_to_blocks, current_ram_usage,
                   memory_events, access_vars, bi, tensor_fully_loaded>>

NextAgain ==
    \/ BeginAccess
    \/ SkipUnknown
    \/ AccessHit
    \/ EvictBlock
    \/ LoadBlock
    \/ FinishAccess
    \/ UpdatePeak
    \/ Return
    \/ SimulateAgain

\* the tables and capacities of the node family with plans of single-access
\* nodes
InitAgain ==
    \E rs \in NodeRamSizes, td \in NodeTables,
       plan \in PlansOver(SingleAccessNodes({1, 2}), MaxNodesPlanLen) :
        Construct(rs, DefaultBlockSize, td, plan)

\* simulate() called up to MaxCalls times on one simulator
SpecAgain == InitAgain /\ [][NextAgain]_vars

-----------------------------------------------------------------------------
(* Vocabulary of the properties.                                           *)

MaxOf(S) == CHOOSE x \in S : \A y \in S : y <= x

\* an access of a known tensor has just returned to simulate()
JustAccessed ==
    /\ InNode
    /\ idx > 1
    /\ Known(Accesses(node)[idx - 1].tensor_id)

Last(s) == s[Len(s)]

\* an eviction has just run inside _load_block
JustEvicted ==
    /\ pc = "load"
    /\ memory_events # << >>
    /\ Last(memory_events).event_type = "evict_block"

\* position in the event log of the latest load or hit of the block at addr
LastTouch(addr) ==
    MaxOf({ i \in 1..Len(memory_events) :
              /\ memory_events[i].block_address = addr
              /\ memory_events[i].event_type \in {"load_block", "access_block"} })

\* the addresses this step removes from the cache
Evicted == KeySet(ram_blocks) \ KeySet(ram_blocks')

\* the block-aligned addresses whose window meets the byte range of tensor t
WindowsOf(t) ==
    LET lo == tensor_data[t].address
        hi == tensor_data[t].address + tensor_data[t].size
    IN  { a \in { k * block_size : k \in 0..(hi \div block_size) } :
              a < hi /\ a + block_size > lo }

\* the tensors a plan names that are in the table
PlanTensors ==
    { t \in DOMAIN tensor_data :
        \E i \in 1..Len(execution_plan) :
            \E j \in 1..Len(Accesses(execution_plan[i])) :
                Accesses(execution_plan[i])[j].tensor_id = t }

\* the distinct blocks the whole plan touches
TouchedBlocks == UNION { WindowsOf(t) : t \in PlanTensors }

\* the three-block scenario: capacity 2 of blocks of 4096 bytes, T1, T2, T3
InScenario ==
    /\ block_size = 4096
    /\ ram_size = 8192
    /\ tensor_data = ScenarioTable

ReadOf(t, i) == [node_idx |-> NodeIdxOf(i), inputs |-> <<t>>, outputs |-> << >>]

\* a tensor that lies within one block which another tensor lies within too
SharesItsBlock(t) ==
    /\ Cardinality(WindowsOf(t)) = 1
    /\ \E a \in DOMAIN tensor_data : a # t /\ WindowsOf(a) = WindowsOf(t)

\* the access that just returned found its only block resident, and that
\* block also holds another tensor
SharedBlockHit ==
    /\ JustAccessed
    /\ SharesItsBlock(tensor_id)
    /\ WindowsOf(tensor_id) \subseteq entry.resident

\* the tensor id of the access before the one that just returned (0: none)
PrevAccessTensor ==
    IF idx > 2 THEN Accesses(node)[idx - 2].tensor_id
    ELSE IF step >= 1 /\ Len(Accesses(execution_plan[step])) >= 1
         THEN Last(Accesses(execution_plan[step])).tensor_id
         ELSE 0

\* tensor A was accessed, then tensor B of the same block, which B found
\* resident
AThenB ==
    /\ SharedBlockHit
    /\ PrevAccessTensor \in DOMAIN tensor_data \ {tensor_id}
    /\ WindowsOf(PrevAccessTensor) = WindowsOf(tensor_id)

-----------------------------------------------------------------------------
(* Properties.                                                             *)

\* C1: after every tensor access the number of resident blocks is at most
\* capacity = floor(ram_size / block_size).
C1_ResidentWithinCapacity ==
    (pc = "node" \/ pc = "done") => Len(ram_blocks) <= ram_size \div block_size

\* C2: eviction is strict LRU over blocks: a miss with the cache at capacity
\* evicts exactly the resident block whose latest load or hit is the oldest;
\* and with capacity 2, after reads of T1, T2, T3 in this order, T1's block
\* is not resident and T2's block is.
C2_StrictLRU ==
    [][ /\ \A a \in Evicted :
              /\ Evicted = {a}
              /\ \A b \in KeySet(ram_blocks) : LastTouch(a) <= LastTouch(b)
        /\ ( /\ pc = "access"
             /\ bi <= Len(blocks)
             /\ blocks[bi].start_address \notin KeySet(ram_blocks)
             /\ Len(ram_blocks) >= total_blocks
             /\ ram_blocks # << >> ) => Evicted # {}
        /\ ( /\ InScenario'
             /\ Len(execution_plan') >= 3
             /\ SubSeq(execution_plan', 1, 3) = <<ReadOf(1, 1), ReadOf(2, 2), ReadOf(3, 3)>>
             /\ step' = 2 /\ JustAccessed' )
           => (0 \notin KeySet(ram_blocks') /\ 4096 \in KeySet(ram_blocks'))
      ]_vars

\* C2 witness: a block was evicted although another resident block had been
\* loaded before it (a hit protected the older block).
C2_Witness ==
    /\ JustEvicted
    /\ \E i \in 1..Len(ram_blocks) :
          \E j, k \in 1..Len(memory_events) :
              /\ j < k
              /\ memory_events[j].event_type = "load_block"
              /\ memory_events[j].block_address = ram_blocks[i].start_address
              /\ memory_events[k].event_type = "load_block"
              /\ memory_events[k].block_address = Last(memory_events).block_address
              /\ \A m \in (j + 1)..Len(memory_events) :
                    ~( memory_events[m].event_type = "evict_block"
                       /\ memory_events[m].block_address = ram_blocks[i].start_address )

\* C3: evicting a dirty block adds exactly block_size to total I/O; evicting
\* a clean block leaves total I/O unchanged.
C3_EvictionWriteBack ==
    [][ \A i \in 1..Len(ram_blocks) :
            ram_blocks[i].start_address \in Evicted =>
                stats'.total_io = stats.total_io
                                  + (IF ram_blocks[i].dirty THEN block_size ELSE 0)
      ]_vars

\* C3 witness: the first eviction of the run has just removed a dirty block
\* (total I/O is the loads plus one write-back).
C3_Witness ==
    /\ JustEvicted
    /\ stats.block_evictions = 1
    /\ stats.total_io = block_size * (stats.block_misses + 1)

\* C4: after a write access to a known tensor every resident block of that
\* tensor is dirty, whether the write hit the block or loaded it (stated for
\* the configurations with capacity >= 1).
C4_WriteSetsDirty ==
    (JustAccessed /\ is_write /\ ram_size >= block_size) =>
        \A i \in 1..Len(ram_blocks) :
            ram_blocks[i].start_address \in WindowsOf(tensor_id) => ram_blocks[i].dirty

\* C5: a tensor B that lies in the same block as another tensor A, accessed
\* while that block is resident (A's access loaded it and nothing evicted
\* it), is a block hit and a tensor hit; total I/O and block misses are
\* unchanged by B's access.
C5_SharedBlockNoDoubleIO ==
    SharedBlockHit =>
        /\ stats.total_io = entry.stats.total_io
        /\ stats.block_misses = entry.stats.block_misses
        /\ stats.block_hits = entry.stats.block_hits + 1
        /\ stats.tensor_hits = entry.stats.tensor_hits + 1
        /\ stats.tensor_misses = entry.stats.tensor_misses

\* C5 witness: the first node accessed A (one load), the second node accessed
\* B, another tensor of the same block (one hit).
C5_Witness ==
    /\ AThenB
    /\ Len(memory_events) = 2
    /\ memory_events[1].event_type = "load_block"
    /\ memory_events[2].event_type = "access_block"
    /\ memory_events[2].tensor_id = tensor_id

\* C6: when tensor B hits a block shared with another tensor A, the
\* shared_block_accesses counter is incremented, so it is positive afterwards
\* (stated for the configurations with capacity >= 1).
C6_SharedCounterIncremented ==
    (AThenB /\ ram_size >= block_size) =>
        /\ stats.shared_block_accesses = entry.stats.shared_block_accesses + 1
        /\ stats.shared_block_accesses > 0

\* C7: if capacity is at least the number of distinct blocks the whole plan
\* touches, then after simulate() block_evictions = 0 and block_misses is the
\* number of distinct blocks referenced by the known tensors of the plan.
C7_SufficientRAM ==
    (pc = "done" /\ ram_size \div block_size >= Cardinality(TouchedBlocks)) =>
        /\ stats.block_evictions = 0
        /\ stats.block_misses = Cardinality(TouchedBlocks)

\* C7 witness: a finished run with enough capacity that touched two blocks or
\* more and had a hit.
C7_Witness ==
    /\ pc = "done"
    /\ ram_size \div block_size >= Cardinality(TouchedBlocks)
    /\ Cardinality(TouchedBlocks) >= 2
    /\ stats.block_hits >= 1

\* the plan of the end-to-end scenario: reads of T1, T2, T3, T1
ScenarioPlan == <<ReadOf(1, 1), ReadOf(2, 2), ReadOf(3, 3), ReadOf(1, 4)>>

EvictionsLogged ==
    SelectSeq(memory_events, LAMBDA e : e.event_type = "evict_block")

\* C8: block size 4096, RAM 8192, T1, T2, T3 at 0, 4096, 8192 (4096 bytes
\* each), reads of T1, T2, T3, T1: simulate() ends with block_hits = 0,
\* block_misses = 4, block_evictions = 2, peak_memory = 8192; block 0 is
\* evicted at node 2 and block 1 at node 3.
C8_EndToEnd ==
    (InScenario /\ execution_plan = ScenarioPlan /\ pc = "done") =>
        /\ stats.block_hits = 0
        /\ stats.block_misses = 4
        /\ stats.block_evictions = 2
        /\ stats.peak_memory = 8192
        /\ Len(EvictionsLogged) = 2
        /\ EvictionsLogged[1].step = 2 /\ EvictionsLogged[1].block_address = 0
        /\ EvictionsLogged[2].step = 3 /\ EvictionsLogged[2].block_address = 4096

\* C8 witness: the scenario has run to its end.
C8_Witness == InScenario /\ execution_plan = ScenarioPlan /\ pc = "done"

\* C10: a simulation with ram_size <= 0, block_size <= 0 or ram_size <
\* block_size is rejected before any plan step is replayed: no access is ever
\* processed with capacity 0.
C10_ConfigValidated ==
    (pc \in {"access", "load"} \/ step > 0 \/ idx > 1) =>
        (ram_size > 0 /\ block_size > 0 /\ ram_size >= block_size)

\* the tensor ids a node names, inputs first
NamedBy(n) == n.inputs \o n.outputs

\* simulate() is about to reach an input or output that is not in the table
AtUnknownTensor ==
    /\ pc = "node"
    /\ step < Len(execution_plan)
    /\ idx <= Len(NamedBy(execution_plan[step + 1]))
    /\ NamedBy(execution_plan[step + 1])[idx] \notin DOMAIN tensor_data

\* C11: an input or output that names a tensor absent from the tensor table
\* is a no-op: the step that meets it leaves the resident cache (its blocks,
\* their LRU order and their dirty flags), every counter of the statistics,
\* the resident bytes and the event log as they were, and simulate() goes on
\* in the same node with the access after it.
C11_UnknownTensorNoOp ==
    [][AtUnknownTensor =>
          /\ ram_blocks' = ram_blocks
          /\ stats' = stats
          /\ memory_events' = memory_events
          /\ current_ram_usage' = current_ram_usage
          /\ tensor_to_blocks' = tensor_to_blocks
          /\ pc' = "node"
          /\ step' = step
          /\ idx' = idx + 1]_vars

\* an unknown tensor has just been passed over with blocks resident, one of
\* them dirty, and events in the log
C11_Witness ==
    /\ pc = "node"
    /\ step < Len(execution_plan)
    /\ idx > 1
    /\ NamedBy(execution_plan[step + 1])[idx - 1] \notin DOMAIN tensor_data
    /\ \E i \in 1..Len(ram_blocks) : ram_blocks[i].dirty
    /\ memory_events # << >>

\* the reads of the k-th entry of the plan, then its writes, as step k - 1
ReadsOf(k) ==
    [i \in 1..Len(execution_plan[k].inputs) |->
        [step |-> k - 1, tensor_id |-> execution_plan[k].inputs[i], is_write |-> FALSE]]

WritesOf(k) ==
    [i \in 1..Len(execution_plan[k].outputs) |->
        [step |-> k - 1, tensor_id |-> execution_plan[k].outputs[i], is_write |-> TRUE]]

RECURSIVE ReplayOf(_)
\* what the first k entries of the plan ask for, in order
ReplayOf(k) == IF k = 0 THEN << >> ELSE ReplayOf(k - 1) \o ReadsOf(k) \o WritesOf(k)

InTable(a) == a.tensor_id \in DOMAIN tensor_data

\* the accesses of tensors of the table that the whole plan asks for
KnownReplay == SelectSeq(ReplayOf(Len(execution_plan)), InTable)

\* C12: the nodes are replayed strictly in plan order, step i being the
\* i-th entry of the plan; within a node every input is accessed as a read in
\* the listed order, then every output as a write in the listed order. The
\* accesses begun so far are therefore always the first ones of the plan's
\* flattened list (no access of a later node before one of an earlier node),
\* all of it when simulate() returns, and every event carries the step and
\* the node_idx of the entry it was made for, steps never decreasing.
C12_ReplayOrder ==
    /\ Len(entry.order) <= Len(KnownReplay)
    /\ entry.order = SubSeq(KnownReplay, 1, Len(entry.order))
    /\ pc = "done" => Len(entry.order) = Len(KnownReplay)
    /\ \A i \in 1..Len(memory_events) :
          /\ memory_events[i].step \in 0..(Len(execution_plan) - 1)
          /\ memory_events[i].node_idx = execution_plan[memory_events[i].step + 1].node_idx
          /\ i > 1 => memory_events[i - 1].step <= memory_events[i].step

\* simulate() has returned from a plan of two nodes, the first reading one
\* tensor and writing another, the second reading two different tensors
C12_Witness ==
    /\ pc = "done"
    /\ Len(execution_plan) = 2
    /\ Len(execution_plan[1].inputs) = 1
    /\ Len(execution_plan[1].outputs) = 1
    /\ execution_plan[1].inputs[1] # execution_plan[1].outputs[1]
    /\ Len(execution_plan[2].inputs) = 2
    /\ execution_plan[2].inputs[1] # execution_plan[2].inputs[2]
    /\ Len(entry.order) = 4

\* the events logged since the latest access began
EventsOfAccess == SubSeq(memory_events, entry.events + 1, Len(memory_events))

\* every block of the latest access was resident when the access reached it:
\* the access logged block accesses only, no load
AllFoundResident ==
    \A i \in 1..Len(EventsOfAccess) : EventsOfAccess[i].event_type = "access_block"

\* C13: an access of a known tensor increments exactly one of tensor_hits
\* and tensor_misses, by one: tensor_hits if and only if every block the
\* tensor spans was resident when the access reached it, tensor_misses if
\* any of its blocks had to be loaded.
C13_TensorLevelAccounting ==
    JustAccessed =>
        /\ AllFoundResident <=> stats.block_misses = entry.stats.block_misses
        /\ stats.tensor_hits =
              entry.stats.tensor_hits + (IF AllFoundResident THEN 1 ELSE 0)
        /\ stats.tensor_misses =
              entry.stats.tensor_misses + (IF AllFoundResident THEN 0 ELSE 1)

\* an access has just returned that found one of its blocks resident and had
\* to load another: a tensor miss
C13_Witness ==
    /\ JustAccessed
    /\ stats.block_hits > entry.stats.block_hits
    /\ stats.block_misses > entry.stats.block_misses
    /\ stats.tensor_misses = entry.stats.tensor_misses + 1

\* the tensors of the table whose bytes meet the block at addr
TensorsIn(addr) == { t \in DOMAIN tensor_data : addr \in WindowsOf(t) }

\* this step brings into the cache a block that several tensors overlap
LoadsSharedBlock ==
    \E addr \in KeySet(ram_blocks') \ KeySet(ram_blocks) : Cardinality(TensorsIn(addr)) >= 2

ResidentBytesMatch == current_ram_usage = Cardinality(KeySet(ram_blocks)) * block_size

\* C14: in every reachable state the tracked resident bytes equal the number
\* of distinct resident blocks times block_size, and the step that loads a
\* block overlapped by several tensors adds block_size to the resident bytes
\* and to total_io exactly once, however many tensors the block holds.
C14_ResidentBytes ==
    /\ ResidentBytesMatch
    /\ [][/\ ResidentBytesMatch'
          /\ LoadsSharedBlock =>
                /\ Cardinality(KeySet(ram_blocks') \ KeySet(ram_blocks)) = 1
                /\ current_ram_usage' = current_ram_usage + block_size
                /\ stats'.total_io = stats.total_io + block_size]_vars

\* a block that two tensors overlap has been loaded, evicted and loaded again
C14_Witness ==
    \E i \in 1..Len(ram_blocks) :
        /\ Cardinality(TensorsIn(ram_blocks[i].start_address)) >= 2
        /\ Cardinality({ k \in 1..Len(memory_events) :
                           /\ memory_events[k].event_type = "load_block"
                           /\ memory_events[k].block_address = ram_blocks[i].start_address }) = 2

\* the most bytes resident after any access made so far, taken when no access
\* is under way
MostAfterAnyAccess ==
    IF entry.seen >= current_ram_usage THEN entry.seen ELSE current_ram_usage

\* C15 as stated: the peak is updated after every tensor access, so that
\* when simulate() moves on to the next access the peak it holds is at least
\* the bytes resident after the access before.
C15_PeakAfterEveryAccess ==
    (pc = "access" /\ bi = 1) => stats.peak_memory >= current_ram_usage

\* C15, amended: the peak is updated once per node, after the node's inputs
\* and outputs have all been accessed, and by nothing else; at every node
\* boundary and when simulate() returns, peak_memory equals the maximum of
\* the bytes resident after any individual access made so far (resident
\* bytes never decrease from one access to the next).
C15_PeakPerNode ==
    /\ [][stats'.peak_memory # stats.peak_memory => step' = step + 1]_vars
    /\ []((pc \in {"node", "done"} /\ idx = 1) => stats.peak_memory = MostAfterAnyAccess)
    /\ [](pc = "access" /\ bi = 1 => entry.seen = current_ram_usage)

\* simulate() has returned from a plan of one node of two accesses, the
\* second of which began with more bytes resident than the peak held, and
\* the returned peak counts the bytes the second access added
C15_Witness ==
    /\ pc = "done"
    /\ Len(execution_plan) = 1
    /\ Len(entry.order) = 2
    /\ entry.stats.peak_memory < entry.seen
    /\ entry.seen < current_ram_usage
    /\ stats.peak_memory = current_ram_usage

\* the three ratios get_hit_ratios() returns
RatioNames == {"block_hit_ratio", "tensor_hit_ratio", "shared_access_ratio"}

NothingCounted ==
    /\ stats.block_hits + stats.block_misses = 0
    /\ stats.tensor_hits + stats.tensor_misses = 0

\* C16: get_hit_ratios() is guarded against division by zero: on the
\* statistics of every reachable state none of its three divisions has a
\* zero divisor, and while no block access and no tensor access has been
\* counted all three ratios are 0.
C16_HitRatiosGuarded ==
    /\ \A r \in RatioNames : get_hit_ratios(stats)[r].den # 0
    /\ NothingCounted => \A r \in RatioNames : get_hit_ratios(stats)[r].num = 0

\* simulate() has returned from a plan whose nodes name no tensor of the
\* table: nothing was counted, and the ratios are asked for
C16_Witness ==
    /\ pc = "done"
    /\ execution_plan # << >>
    /\ \A k \in 1..Len(execution_plan) : NamedBy(execution_plan[k]) # << >>
    /\ NothingCounted
    /\ get_hit_ratios(stats).shared_access_ratio = Zero

\* the distinct blocks needed to cover every tensor of the table
CoveringBlocks == UNION { WindowsOf(t) : t \in DOMAIN tensor_data }

TotalTensorSize ==
    SumOver(DOMAIN tensor_data, [t \in DOMAIN tensor_data |-> tensor_data[t].size])

\* C17: the bytes saved through sharing are the sum of the tensor sizes
\* minus the number of distinct blocks needed to cover all tensors times
\* block_size; the value is set at construction from the tensor table and
\* block_size alone and no access, load or eviction changes it.
C17_SavedBySharing ==
    stats.memory_saved_sharing = TotalTensorSize - Cardinality(CoveringBlocks) * block_size

\* simulate() has returned, after loads and an eviction, on a table where two
\* tensors overlap the same block
C17_Witness ==
    /\ pc = "done"
    /\ stats.block_evictions >= 1
    /\ \E addr \in CoveringBlocks : Cardinality(TensorsIn(addr)) >= 2
    /\ stats.memory_saved_sharing # 0

\* the constructor has a parameter that switches the event log
CaptureEventsRecognized == ConfigOptions \cap {"captureEvents", "capture_events"} # {}

\* C18: the configuration recognizes a boolean captureEvents option that
\* governs the event log: events are retained only by a run that was
\* configured with the option, and a run without it enabled retains none.
C18_CaptureEventsToggle ==
    memory_events # << >> => CaptureEventsRecognized

\* _access_tensor is about to reach a block of its tensor that is resident
AtResidentBlock ==
    /\ pc = "access"
    /\ bi <= Len(blocks)
    /\ blocks[bi].start_address \in KeySet(ram_blocks)

\* the position in the cache of the block at addr
PlaceOf(addr) == CHOOSE i \in 1..Len(ram_blocks) : ram_blocks[i].start_address = addr

\* C19: the step that reaches a resident block makes it the most recently
\* used entry (the other entries keep their order), sets its last_access to
\* the current step, sets its dirty flag if the access is a write and leaves
\* the flag as it was otherwise, adds exactly 1 to block_hits and appends one
\* access_block event for the accessed tensor and that block; total_io,
\* block_misses, block_evictions, every other counter, the resident bytes
\* and the set of resident blocks are unchanged.
C19_HitStep ==
    [][AtResidentBlock =>
          LET addr == blocks[bi].start_address
              k == PlaceOf(addr)
              n == Len(ram_blocks)
          IN  /\ Len(ram_blocks') = n
              /\ ram_blocks'[n] = [ram_blocks[k] EXCEPT
                                      !.last_access = step,
                                      !.dirty = (is_write \/ ram_blocks[k].dirty)]
              /\ \A i \in 1..(n - 1) :
                    ram_blocks'[i] = IF i < k THEN ram_blocks[i] ELSE ram_blocks[i + 1]
              /\ KeySet(ram_blocks') = KeySet(ram_blocks)
              /\ stats' = [stats EXCEPT !.block_hits = stats.block_hits + 1]
              /\ stats'.total_io = stats.total_io
              /\ stats'.block_misses = stats.block_misses
              /\ stats'.block_evictions = stats.block_evictions
              /\ current_ram_usage' = current_ram_usage
              /\ Len(memory_events') = Len(memory_events) + 1
              /\ SubSeq(memory_events', 1, Len(memory_events)) = memory_events
              /\ Last(memory_events').event_type = "access_block"
              /\ Last(memory_events').tensor_id = tensor_id
              /\ Last(memory_events').block_address = addr
              /\ Last(memory_events').is_write = is_write
              /\ Last(memory_events').step = step]_vars

\* a read has just hit a dirty block that was not the most recently used:
\* the block is now last in the cache and still dirty
C19_Witness ==
    /\ pc = "access"
    /\ ~is_write
    /\ Len(memory_events) >= 2
    /\ Last(memory_events).event_type = "access_block"
    /\ memory_events[Len(memory_events) - 1].event_type \in {"load_block", "access_block"}
    /\ memory_events[Len(memory_events) - 1].block_address # Last(memory_events).block_address
    /\ Len(ram_blocks) >= 2
    /\ Last(ram_blocks).start_address = Last(memory_events).block_address
    /\ Last(ram_blocks).dirty

\* _access_tensor is about to reach a block of its tensor that is not resident
AtAbsentBlock ==
    /\ pc = "access"
    /\ bi <= Len(blocks)
    /\ blocks[bi].start_address \notin KeySet(ram_blocks)

\* the cache holds as many blocks as its capacity allows (or more)
AtCapacity == Len(ram_blocks) >= total_blocks

\* this step evicts exactly one block, the least recently used one, and logs it
EvictsTheLRU ==
    /\ ram_blocks # << >>
    /\ Evicted = {ram_blocks[1].start_address}
    /\ Len(ram_blocks') = Len(ram_blocks) - 1
    /\ stats'.block_evictions = stats.block_evictions + 1
    /\ stats'.block_misses = stats.block_misses
    /\ stats'.block_hits = stats.block_hits
    /\ Len(memory_events') = Len(memory_events) + 1
    /\ Last(memory_events').event_type = "evict_block"
    /\ Last(memory_events').block_address = ram_blocks[1].start_address

\* this step stores the block the access is at as the most recently used
\* entry, counts the miss and the load, and logs the load last
LoadsTheBlock ==
    /\ Len(ram_blocks') = Len(ram_blocks) + 1
    /\ SubSeq(ram_blocks', 1, Len(ram_blocks)) = ram_blocks
    /\ Last(ram_blocks').start_address = blocks[bi].start_address
    /\ Last(ram_blocks').last_access = step
    /\ stats'.total_io = stats.total_io + block_size
    /\ stats'.block_misses = stats.block_misses + 1
    /\ stats'.block_hits = stats.block_hits
    /\ stats'.block_evictions = stats.block_evictions
    /\ memory_events' = Append(memory_events, Last(memory_events'))
    /\ Last(memory_events').event_type = "load_block"
    /\ Last(memory_events').block_address = blocks[bi].start_address

\* C20: when the block an access reaches is not resident, exactly one block,
\* the least recently used, is evicted first if and only if the cache was at
\* capacity; then the block is inserted as the most recently used entry,
\* total_io grows by exactly block_size for the load, block_misses by
\* exactly 1, block_hits is unchanged, and one load_block event is appended,
\* after the evict_block event of the same miss when there is one.
C20_MissStep ==
    [][/\ (AtAbsentBlock /\ AtCapacity) => (EvictsTheLRU /\ pc' = "load")
       /\ (AtAbsentBlock /\ ~AtCapacity) => (LoadsTheBlock /\ pc' = "access")
       /\ pc = "load" =>
             /\ memory_events # << >>
             /\ Last(memory_events).event_type = "evict_block"
             /\ Last(memory_events).step = step
             /\ LoadsTheBlock
             /\ pc' = "access"]_vars

\* C21: in every reachable state the resident-block bookkeeping of every
\* tensor of the table is exactly the set of start addresses of the resident
\* blocks whose window overlaps the tensor's byte range: an eviction takes
\* the block's address out of the bookkeeping of every tensor that overlaps
\* it, and no bookkeeping set names a block that is not resident.
C21_BookkeepingExact ==
    /\ DOMAIN tensor_to_blocks = DOMAIN tensor_data
    /\ \A t \in DOMAIN tensor_data :
          tensor_to_blocks[t] = KeySet(ram_blocks) \cap WindowsOf(t)

\* a block that two tensors overlap has been evicted and is not resident,
\* while another block of one of the two is
C21_Witness ==
    \E k \in 1..Len(memory_events) :
        /\ memory_events[k].event_type = "evict_block"
        /\ memory_events[k].shared_tensors # {}
        /\ memory_events[k].block_address \notin KeySet(ram_blocks)
        /\ \E t \in TensorsIn(memory_events[k].block_address) : tensor_to_blocks[t] # {}

\* the n highest addresses of the set S of addresses
HighestOf(S, n) == { a \in S : Cardinality({ b \in S : b > a }) < n }

\* C22: with a capacity of at least one block, right after an access of a
\* known tensor that spans k blocks: if k <= capacity all k blocks are
\* resident (the access evicted none of the blocks it touched earlier); if
\* k > capacity the access evicted its own earlier blocks and the resident
\* blocks are exactly the last `capacity` blocks of the tensor.
C22_BlocksResidentAfterAccess ==
    (JustAccessed /\ total_blocks >= 1) =>
        LET spanned == WindowsOf(tensor_id)
        IN  IF Cardinality(spanned) <= total_blocks
            THEN spanned \subseteq KeySet(ram_blocks)
            ELSE KeySet(ram_blocks) = HighestOf(spanned, total_blocks)

\* an access of a tensor of three blocks has just returned at capacity 2,
\* having found its first block resident and evicted it later on
C22_Witness ==
    /\ JustAccessed
    /\ total_blocks = 2
    /\ Cardinality(WindowsOf(tensor_id)) = 3
    /\ stats.block_hits > entry.stats.block_hits
    /\ stats.block_evictions >= entry.stats.block_evictions + 2
    /\ KeySet(ram_blocks) \subseteq WindowsOf(tensor_id)
    /\ Cardinality(KeySet(ram_blocks)) = 2

\* C23: in every reachable state block_misses - block_evictions is the
\* number of resident blocks: every load is counted as a miss and every
\* removal as an eviction, and the eviction attempted on an empty cache
\* changes nothing and is not counted.
C23_MissesMinusEvictions ==
    /\ [](stats.block_misses - stats.block_evictions = Cardinality(KeySet(ram_blocks)))
    /\ [][(AtAbsentBlock /\ AtCapacity /\ ram_blocks = << >>) =>
              UNCHANGED <<stats, ram_blocks, current_ram_usage, memory_events,
                          tensor_to_blocks>>]_vars

\* blocks have been loaded and evicted, and the block now resident was
\* loaded after an eviction was attempted on the empty cache
C23_Witness ==
    /\ total_blocks = 0
    /\ stats.block_evictions >= 1
    /\ stats.block_misses = stats.block_evictions + 1
    /\ Len(ram_blocks) = 1

\* the k-th event evicts a block that was written while resident: a write
\* hit of the block precedes it with no eviction of the block in between
EvictsDirty(k) ==
    /\ memory_events[k].event_type = "evict_block"
    /\ \E j \in 1..(k - 1) :
          /\ memory_events[j].event_type = "access_block"
          /\ memory_events[j].is_write
          /\ memory_events[j].block_address = memory_events[k].block_address
          /\ \A m \in (j + 1)..(k - 1) :
                ~(/\ memory_events[m].event_type = "evict_block"
                  /\ memory_events[m].block_address = memory_events[k].block_address)

DirtyEvictions == Cardinality({ k \in 1..Len(memory_events) : EvictsDirty(k) })

\* C24: in every reachable state total_io is block_size times the sum of
\* block_misses and the number of evictions of dirty blocks so far; the
\* dirty blocks still resident when simulate() returns add no write-back
\* (there is no final flush).
C24_IOAccounting ==
    stats.total_io = block_size * (stats.block_misses + DirtyEvictions)

\* simulate() has returned after evicting a dirty block, with another dirty
\* block still resident
C24_Witness ==
    /\ pc = "done"
    /\ DirtyEvictions >= 1
    /\ \E i \in 1..Len(ram_blocks) : ram_blocks[i].dirty

\* the addresses this step brings into the cache
Entered == KeySet(ram_blocks') \ KeySet(ram_blocks)

\* every evict_block event of the log is followed at once by a load_block
\* event of the same step and node, the load still to come if it is the last
EvictThenLoad ==
    \A k \in 1..Len(memory_events) :
        memory_events[k].event_type = "evict_block" =>
            IF k = Len(memory_events)
            THEN pc = "load"
            ELSE /\ memory_events[k + 1].event_type = "load_block"
                 /\ memory_events[k + 1].step = memory_events[k].step
                 /\ memory_events[k + 1].node_idx = memory_events[k].node_idx

\* C25: a block enters the cache only through a miss on an access of a
\* tensor that overlaps it, and leaves it only through an eviction; an
\* eviction happens only as the first part of a miss with the cache at
\* capacity, so that every evict_block event of the log is followed at once
\* by a load_block event of the same step and node_idx; a hit never changes
\* the set of resident blocks.
C25_BlockLifecycle ==
    /\ [][/\ \A a \in Entered :
                /\ Entered = {a}
                /\ pc \in {"access", "load"}
                /\ a = blocks[bi].start_address
                /\ a \in WindowsOf(tensor_id)
                /\ stats'.block_misses = stats.block_misses + 1
          /\ Evicted # {} =>
                /\ AtAbsentBlock
                /\ AtCapacity
                /\ Entered = {}
                /\ stats'.block_evictions = stats.block_evictions + 1
                /\ Last(memory_events').event_type = "evict_block"
                /\ Last(memory_events').block_address \in Evicted
                /\ pc' = "load"
          /\ AtResidentBlock => KeySet(ram_blocks') = KeySet(ram_blocks)]_vars
    /\ []EvictThenLoad

\* a block was evicted and another loaded in its place, and a later access
\* hit a resident block
C25_Witness ==
    \E k \in 1..Len(memory_events) :
        /\ memory_events[k].event_type = "evict_block"
        /\ k + 2 <= Len(memory_events)
        /\ memory_events[k + 1].event_type = "load_block"
        /\ memory_events[k + 1].block_address # memory_events[k].block_address
        /\ \E j \in (k + 2)..Len(memory_events) : memory_events[j].event_type = "access_block"

\* C26: for every tensor accessed (address >= 0, size > 0) the block list
\* _calculate_blocks_for_tensor computed for the access is in strictly ascending
\* address order, every start address is a multiple of block_size, and the
\* list holds exactly the blocks whose window [start, start + block_size)
\* meets [address, address + size): floor((address + size - 1) / block_size)
\* - floor(address / block_size) + 1 blocks, none missing and none extra.
C26_BlocksForTensor ==
    pc \in {"access", "load"} =>
        LET computed == blocks
            address == tensor_data[tensor_id].address
            size == tensor_data[tensor_id].size
        IN  (address >= 0 /\ size > 0) =>
              /\ \A i \in 1..(Len(computed) - 1) :
                    computed[i].start_address < computed[i + 1].start_address
              /\ \A i \in 1..Len(computed) :
                    /\ computed[i].start_address % block_size = 0
                    /\ computed[i].size = block_size
              /\ { computed[i].start_address : i \in 1..Len(computed) }
                    = WindowsOf(tensor_id)
              /\ Len(computed) =
                    ((address + size - 1) \div block_size) - (address \div block_size) + 1

\* an access has begun of a tensor that starts inside one block and ends
\* inside the third block after it, in a table whose other tensor ends
\* exactly on a block boundary
C26_Witness ==
    /\ pc = "access"
    /\ Len(blocks) = 3
    /\ tensor_data[tensor_id].address % block_size # 0
    /\ (tensor_data[tensor_id].address + tensor_data[tensor_id].size) % block_size # 0
    /\ \E t \in DOMAIN tensor_data :
          (tensor_data[t].address + tensor_data[t].size) % block_size = 0

\* the tensors of the table with a byte in [addr, addr + block_size)
Overlapping(addr) ==
    { t \in DOMAIN tensor_data :
        /\ tensor_data[t].address < addr + block_size
        /\ tensor_data[t].address + tensor_data[t].size > addr }

\* C27: the tensor_ids of a resident block are always the set of all the
\* tensors of the table whose byte range meets the block's window, the same
\* set every time the block is loaded and whichever tensor's access loaded
\* it; the set is not empty and holds the tensor whose access loaded it.
C27_BlockTensorSets ==
    /\ [](\A i \in 1..Len(ram_blocks) :
            /\ ram_blocks[i].tensor_ids = Overlapping(ram_blocks[i].start_address)
            /\ ram_blocks[i].tensor_ids # {})
    /\ [][\A a \in Entered : tensor_id \in Last(ram_blocks').tensor_ids]_vars

\* a block is resident that has been loaded twice and holds two tensors, one
\* of which begins in an earlier block
C27_Witness ==
    \E i \in 1..Len(ram_blocks) :
        /\ Cardinality(ram_blocks[i].tensor_ids) = 2
        /\ \E t \in ram_blocks[i].tensor_ids :
              tensor_data[t].address < ram_blocks[i].start_address
        /\ Cardinality({ k \in 1..Len(memory_events) :
                           /\ memory_events[k].event_type = "load_block"
                           /\ memory_events[k].block_address = ram_blocks[i].start_address }) = 2

LowestOf(S) == CHOOSE x \in S : \A y \in S : x <= y

\* C28: every load_block and every evict_block event names as tensor_id the
\* lowest tensor id that overlaps the block and as shared_tensors exactly the
\* other overlapping tensors, so that the two together list every tensor the
\* block serves; the primary need not be the tensor whose access caused the
\* event.
C28_EventsNameBlockTensors ==
    \A k \in 1..Len(memory_events) :
        memory_events[k].event_type \in {"load_block", "evict_block"} =>
            LET served == Overlapping(memory_events[k].block_address)
            IN  /\ memory_events[k].tensor_id = LowestOf(served)
                /\ memory_events[k].shared_tensors = served \ {LowestOf(served)}
                /\ {memory_events[k].tensor_id} \cup memory_events[k].shared_tensors = served

\* the access of one tensor has just loaded a shared block whose load event
\* names the other tensor as primary, after evicting a shared block
C28_Witness ==
    /\ pc = "access"
    /\ Len(memory_events) >= 2
    /\ Last(memory_events).event_type = "load_block"
    /\ Last(memory_events).tensor_id # tensor_id
    /\ tensor_id \in Last(memory_events).shared_tensors
    /\ memory_events[Len(memory_events) - 1].event_type = "evict_block"
    /\ memory_events[Len(memory_events) - 1].shared_tensors # {}

\* the cache entry of the resident block at addr, in this state and the next
EntryAt(addr) == ram_blocks[PlaceOf(addr)]

EntryAtNext(addr) ==
    ram_blocks'[CHOOSE i \in 1..Len(ram_blocks') : ram_blocks'[i].start_address = addr]

WriteHits ==
    Cardinality({ k \in 1..Len(memory_events) :
                    memory_events[k].event_type = "access_block" /\ memory_events[k].is_write })

\* C29: a resident block that is dirty stays dirty for as long as it is
\* resident (no step clears the flag, a read hit included), and a block that
\* enters the cache, for the first time or again after an eviction, enters
\* it clean; the write-backs charged to total_io are therefore never more
\* than the writes that found their block resident.
C29_DirtyPersists ==
    /\ [][/\ \A a \in KeySet(ram_blocks) \cap KeySet(ram_blocks') :
                EntryAt(a).dirty => EntryAtNext(a).dirty
          /\ \A a \in Entered : ~EntryAtNext(a).dirty]_vars
    /\ [](stats.total_io - block_size * stats.block_misses <= block_size * WriteHits)

\* a block was written while resident, evicted dirty and loaded again: it is
\* resident and clean
C29_Witness ==
    \E k \in 1..Len(memory_events) :
        /\ EvictsDirty(k)
        /\ memory_events[k].block_address \in KeySet(ram_blocks)
        /\ ~EntryAt(memory_events[k].block_address).dirty
        /\ stats.total_io = block_size * (stats.block_misses + 1)

\* C30: in every reachable state the last_access of each resident block is
\* the step of its most recent hit or load, and from the LRU end of the cache
\* to its MRU end last_access never decreases; the block an eviction removes
\* therefore has the least last_access of the resident blocks.
C30_RecencyConsistent ==
    /\ [](/\ \A i \in 1..Len(ram_blocks) :
               ram_blocks[i].last_access
                  = memory_events[LastTouch(ram_blocks[i].start_address)].step
          /\ \A i \in 1..(Len(ram_blocks) - 1) :
               ram_blocks[i].last_access <= ram_blocks[i + 1].last_access)
    /\ [][\A a \in Evicted :
             \A i \in 1..Len(ram_blocks) :
                 EntryAt(a).last_access <= ram_blocks[i].last_access]_vars

\* after an eviction, two blocks are resident that were last touched at
\* different steps, the more recent one by a hit
C30_Witness ==
    /\ stats.block_evictions >= 1
    /\ Len(ram_blocks) = 2
    /\ ram_blocks[1].last_access < ram_blocks[2].last_access
    /\ ram_blocks[1].last_access > 0
    /\ memory_events[LastTouch(ram_blocks[2].start_address)].event_type = "access_block"

\* the lesser of two numbers
LesserOf(a, b) == IF a <= b THEN a ELSE b

\* C31: measured between tensor accesses, the resident bytes never decrease
\* during a run (every eviction is paired with a load), so that when
\* simulate() returns on a non-empty plan peak_memory is the final resident
\* bytes; with a capacity of at least one block these are block_size times
\* the lesser of the capacity and the number of distinct blocks the plan
\* touched, and never more than ram_size.
C31_ResidentBytesNeverDecrease ==
    /\ JustAccessed => current_ram_usage >= Cardinality(entry.resident) * block_size
    /\ (pc = "done" /\ execution_plan # << >>) =>
          /\ stats.peak_memory = current_ram_usage
          /\ total_blocks >= 1 =>
                /\ current_ram_usage
                      = block_size * LesserOf(total_blocks, Cardinality(TouchedBlocks))
                /\ current_ram_usage <= ram_size

\* simulate() has returned from a plan that touched more distinct blocks than
\* the cache holds: blocks were evicted and the cache is full
C31_Witness ==
    /\ pc = "done"
    /\ total_blocks >= 1
    /\ Cardinality(TouchedBlocks) > total_blocks
    /\ stats.block_evictions >= 2
    /\ stats.peak_memory = block_size * total_blocks

\* how many events of the given type the log holds
EventCount(type) ==
    Cardinality({ k \in 1..Len(memory_events) : memory_events[k].event_type = type })

\* C32: in every reachable state the statistics and the event log agree: the
\* number of load_block events is block_misses, the number of evict_block
\* events is block_evictions and the number of access_block events is
\* block_hits.
C32_StatsMatchLog ==
    /\ EventCount("load_block") = stats.block_misses
    /\ EventCount("evict_block") = stats.block_evictions
    /\ EventCount("access_block") = stats.block_hits
    /\ Len(memory_events) = stats.block_misses + stats.block_evictions + stats.block_hits

\* loads, evictions and hits have all been counted, hits more than once
C32_Witness ==
    /\ stats.block_misses >= 2
    /\ stats.block_evictions >= 1
    /\ stats.block_hits >= 2
    /\ pc = "done"

\* what the first call of simulate() returned, the same as a fresh simulator
\* returns for this configuration
FirstReturn == entry.returned[1]

SecondCallReturned == pc = "done" /\ Len(entry.returned) = 1

\* C33: simulate() does not reset state. A second call on the same simulator
\* starts from the cache, the counters and the event log the first call left:
\* the step that starts it changes none of them, the events of the first call
\* stay at the head of the log, no counter falls below what the first call
\* returned, and blocks the first call left resident are hit (when the first
\* call evicted nothing the second has no miss and hits every block it
\* accesses). The statistics the second call returns therefore differ from
\* those of a fresh simulator whenever the first call counted an access.
C33_SecondCallContinues ==
    /\ [][(pc = "done" /\ pc' = "node") =>
              /\ step' = 0
              /\ UNCHANGED <<stats, ram_blocks, current_ram_usage, memory_events,
                             tensor_to_blocks>>]_vars
    /\ [][/\ Len(memory_events') >= Len(memory_events)
          /\ SubSeq(memory_events', 1, Len(memory_events)) = memory_events]_vars
    /\ [](Len(entry.returned) = 1 =>
             /\ stats.block_hits >= FirstReturn.block_hits
             /\ stats.block_misses >= FirstReturn.block_misses
             /\ stats.block_evictions >= FirstReturn.block_evictions
             /\ stats.tensor_hits >= FirstReturn.tensor_hits
             /\ stats.tensor_misses >= FirstReturn.tensor_misses
             /\ stats.total_io >= FirstReturn.total_io
             /\ stats.peak_memory >= FirstReturn.peak_memory)
    /\ [](SecondCallReturned =>
             /\ stats.tensor_hits + stats.tensor_misses
                   = 2 * (FirstReturn.tensor_hits + FirstReturn.tensor_misses)
             /\ FirstReturn.tensor_hits + FirstReturn.tensor_misses > 0
                   => stats # FirstReturn
             /\ FirstReturn.block_evictions = 0 =>
                   /\ stats.block_misses = FirstReturn.block_misses
                   /\ stats.block_hits
                         = 2 * FirstReturn.block_hits + FirstReturn.block_misses
                   /\ stats.total_io = FirstReturn.total_io)

\* the second call has returned after a first call that loaded two blocks and
\* evicted none: the second call hit them
C33_Witness ==
    /\ SecondCallReturned
    /\ FirstReturn.block_misses = 2
    /\ FirstReturn.block_evictions = 0
    /\ stats.block_hits >= FirstReturn.block_hits + 2
    /\ stats.block_misses = 2

\* the counters of the statistics that accumulate during a run
Counters ==
    {"block_hits", "block_misses", "block_evictions", "tensor_hits", "tensor_misses",
     "shared_block_accesses", "total_io", "peak_memory"}

\* C34: the counters of the statistics are monotone: no step of a run lowers
\* block_hits, block_misses, block_evictions, tensor_hits, tensor_misses,
\* shared_block_accesses, total_io or peak_memory.
C34_CountersMonotone ==
    [][\A c \in Counters : stats'[c] >= stats[c]]_vars

\* simulate() has returned with hits, misses, evictions, write-backs, tensor
\* hits and tensor misses all counted
C34_Witness ==
    /\ pc = "done"
    /\ stats.block_hits >= 1
    /\ stats.block_evictions >= 2
    /\ stats.tensor_hits >= 1
    /\ stats.tensor_misses >= 1
    /\ stats.total_io > block_size * stats.block_misses
    /\ stats.peak_memory >= block_size

\* C35: the event log is append-only and chronological: every step leaves
\* the events already recorded as they are and adds at most one event, at
\* the end, and along the log of one run the step field never decreases.
C35_LogAppendOnly ==
    /\ [][\/ memory_events' = memory_events
          \/ /\ Len(memory_events') = Len(memory_events) + 1
             /\ \A k \in 1..Len(memory_events) : memory_events'[k] = memory_events[k]
             /\ Last(memory_events').step = step]_vars
    /\ [](\A k \in 1..(Len(memory_events) - 1) :
             memory_events[k].step <= memory_events[k + 1].step)

\* the log holds loads, an eviction and a hit recorded at three different
\* steps
C35_Witness ==
    /\ Len(memory_events) >= 4
    /\ EventCount("evict_block") >= 1
    /\ EventCount("access_block") >= 1
    /\ Cardinality({ memory_events[k].step : k \in 1..Len(memory_events) }) >= 3

\* C36: the resident cache never holds two entries for the same block start
\* address, and the address every entry is kept under is block-aligned and is
\* the start of the window of the block stored there.
C36_OneEntryPerBlock ==
    /\ \A i, j \in 1..Len(ram_blocks) :
          ram_blocks[i].start_address = ram_blocks[j].start_address => i = j
    /\ \A i \in 1..Len(ram_blocks) :
          /\ ram_blocks[i].start_address % block_size = 0
          /\ ram_blocks[i].start_address >= 0
          /\ ram_blocks[i].size = block_size
          /\ ram_blocks[i].tensor_ids = Overlapping(ram_blocks[i].start_address)

\* two blocks are resident, one of them reached again by an access of a
\* tensor that does not begin on a block boundary, after an eviction
C36_Witness ==
    /\ pc = "access"
    /\ bi > 1
    /\ Len(ram_blocks) = 2
    /\ stats.block_evictions >= 1
    /\ tensor_data[tensor_id].address % block_size # 0
    /\ Last(memory_events).event_type = "access_block"

\* C37: when a plan entry names a tensor id absent from the tensor table, a
\* warning-level diagnostic is emitted for the skipped access, one for each
\* skipped access, while the simulation continues.
C37_SkippedAccessDiagnosed ==
    AtUnknownTensor =>
        LET n == execution_plan[step + 1]
            printed == PrintedFor(NamedBy(n)[idx], idx > Len(n.inputs))
        IN  /\ Len(printed) = 1
            /\ printed[1].level = "warning"
            /\ printed[1].tensor_id = NamedBy(n)[idx]

TypeOK ==
    /\ pc \in {"node", "access", "load", "done"}
    /\ step \in 0..Len(execution_plan)
    /\ current_ram_usage \in Int

=============================================================================
